---- MODULE Spec2Model ----
(***************************************************************************)
(* Model of src/heartbeater/singlenet/attributes.rs of libnetkeeper: the   *)
(* Attribute value type, its TLV serialization, the attribute factory and  *)
(* the keepalive token derivation (calc_keepalive_data).                   *)
(*                                                                         *)
(* Representation of the Rust values:                                      *)
(*   - a byte string (Vec<u8>, &[u8]) is a sequence of numbers 0..255;     *)
(*   - a &str / String is the sequence of its UTF-8 bytes, which is how    *)
(*     Rust stores it: str::as_bytes() exposes exactly those bytes;        *)
(*   - a u16 is a number 0..65535; a u32 is the pair <<high 16 bits,       *)
(*     low 16 bits>> (TLC's integers are 32-bit signed);                   *)
(*   - Option<T> is None or Some(v); a call returns Ok(v) or panics.       *)
(***************************************************************************)
EXTENDS Integers, Sequences, FiniteSets, TLC

VARIABLES
    little_endian,    \* byte order of the build target (decides what to_be does)
    overflow_checks,  \* build profile: TRUE = `+` panics on overflow (debug), FALSE = it wraps (release)
    pc,               \* position of the caller that builds and serializes a Vec<Attribute>
    attrs,            \* the caller's Vec<Attribute>
    made,             \* per element of attrs: the constructor call that made it (name, argument)
    parts,            \* what each attr.as_bytes() returned inside the last AttributeVec::as_bytes
    out,              \* what the last AttributeVec::as_bytes returned
    len_out,          \* what the last Attribute::length returned, and the element it was called on
    clock,            \* the system clock, in seconds (a u32), as current_timestamp() reads it
    ncalls,           \* number of calc_keepalive_data calls made so far
    calls,            \* the calc_keepalive_data calls made so far: arguments, clock value read (if read), result
    last_call,        \* the latest calc_keepalive_data call (None before the first)
    repeated,         \* the latest call repeated the arguments of an earlier call, with another call in between
    frames,           \* the stack frames (locals) of the calls in progress, by frame number
    cpc,              \* per call site: position inside its current call
    cargs,            \* per call site: the operation it called and its arguments
    cret              \* per call site: what its call returned

build_vars == <<little_endian, overflow_checks>>
attr_vars == <<pc, attrs, made, parts, out, len_out>>
token_vars == <<ncalls, calls, last_call, repeated>>
conc_vars == <<frames, cpc, cargs, cret>>
vars == <<build_vars, attr_vars, clock, token_vars, conc_vars>>

----------------------------------------------------------------------------
(* Bounds of the model *)

\* most attributes the caller pushes into one Vec<Attribute>
MaxAttrs == 2

\* most calc_keepalive_data calls in one run
MaxCalls == 3

\* most seconds the clock advances in one run
MaxTicks == 1

\* number of call sites running concurrently
NSites == 2

----------------------------------------------------------------------------
(* Option<T>, and the outcome of a call: a value, or a panic that unwinds   *)
(* the calling thread                                                       *)

None == [some |-> FALSE, val |-> <<>>]
Some(v) == [some |-> TRUE, val |-> v]

Ok(v) == [panic |-> FALSE, val |-> v]
Panic == [panic |-> TRUE, val |-> <<>>]

----------------------------------------------------------------------------
(* Integers of the target *)

\* the number of values of a u16
U16Range == 65536

\* u16::swap_bytes, u32::swap_bytes
u16_swap_bytes(x) == (x % 256) * 256 + (x \div 256)
u32_swap_bytes(x) == <<u16_swap_bytes(x[2]), u16_swap_bytes(x[1])>>

\* u16::to_be, u32::to_be: a byte swap on a little-endian target, the
\* identity on a big-endian one
u16_to_be(x) == IF little_endian THEN u16_swap_bytes(x) ELSE x
u32_to_be(x) == IF little_endian THEN u32_swap_bytes(x) ELSE x

\* utils::integer_to_bytes(&x): the bytes of x as they lie in memory, in the
\* target's native order
integer_to_bytes_u16(x) ==
    IF little_endian THEN <<x % 256, x \div 256>> ELSE <<x \div 256, x % 256>>
integer_to_bytes_u32(x) ==
    IF little_endian
    THEN <<x[2] % 256, x[2] \div 256, x[1] % 256, x[1] \div 256>>
    ELSE <<x[1] \div 256, x[1] % 256, x[2] \div 256, x[2] % 256>>

----------------------------------------------------------------------------
(* struct Attribute and impl Attribute *)

new(typename, parent_id, type_id, value_type_id, data) ==
    [typename |-> typename, parent_id |-> parent_id, type_id |-> type_id,
     value_type_id |-> value_type_id, data |-> data]

\* self.data.len() as u16: the cast keeps the low 16 bits
data_length(a) == Len(a.data) % U16Range

\* self.data_length() + 3 in u16: on overflow it panics when the build checks
\* overflow and wraps otherwise
length(a) ==
    LET s == data_length(a) + 3
    IN  IF s < U16Range THEN Ok(s)
        ELSE IF overflow_checks THEN Panic ELSE Ok(s % U16Range)

\* as as_bytes, but with type_id written after the identifier
as_bytes_with_type_id(a) ==
    LET l == length(a)
    IN  IF l.panic THEN Panic
        ELSE Ok(<<a.parent_id, a.type_id>> \o integer_to_bytes_u16(u16_to_be(l.val)) \o a.data)

as_bytes(a) ==
    LET l == length(a)
    IN  IF l.panic THEN Panic
        ELSE Ok(<<a.parent_id>> \o integer_to_bytes_u16(u16_to_be(l.val)) \o a.data)

----------------------------------------------------------------------------
(* impl AttributeFactory for Attribute: the twelve constructors *)

username(s) == new("User-Name", 1, 0, 2, s)

client_ip_address(ipaddress) == new("Client-IP-Address", 2, 0, 1, ipaddress)

\* as client_type, but with the identifier of Client-Version
client_type_id3(s) == new("Client-Type", 3, 0, 2, s)

client_type(s) == new("Client-Type", 4, 0, 2, s)

client_version(s) == new("Client-Version", 3, 0, 2, s)

os_version(s) == new("OS-Version", 5, 0, 2, s)

os_language(s) == new("OS-Lang", 6, 0, 2, s)

cpu_info(s) == new("CPU-Info", 8, 0, 2, s)

mac_address(m) == new("MAC-Address", 9, 0, 2, m)

\* as memory_size, but without the to_be conversion
memory_size_native(size) == new("Memory-Size", 10, 0, 0, integer_to_bytes_u32(size))

memory_size(size) ==
    new("Memory-Size", 10, 0, 0, integer_to_bytes_u32(u32_to_be(size)))

default_explorer(s) == new("Default-Explorer", 11, 0, 2, s)

keepalive_data(s) == new("KeepAlive-Data", 20, 0, 2, s)

keepalive_time(timestamp) ==
    new("KeepAlive-Time", 18, 0, 0, integer_to_bytes_u32(u32_to_be(timestamp)))

----------------------------------------------------------------------------
(* impl AttributeVec for Vec<Attribute> *)

\* as extend, but inserting at the front
extend_front(buf, bytes) == bytes \o buf

\* attributes_bytes.extend(*attr.as_bytes())
extend(buf, bytes) == buf \o bytes

\* the for loop over self from element i on; a panic of attr.as_bytes()
\* unwinds out of the loop
RECURSIVE vec_loop(_, _, _)
vec_loop(s, i, buf) ==
    IF i > Len(s) THEN Ok(buf)
    ELSE LET b == as_bytes(s[i])
         IN  IF b.panic THEN Panic ELSE vec_loop(s, i + 1, extend(buf, b.val))

vec_as_bytes(s) == vec_loop(s, 1, <<>>)

\* what the calls attr.as_bytes() of the loop returned: one outcome per
\* element, up to and including the first that panics
RECURSIVE vec_parts(_, _)
vec_parts(s, i) ==
    IF i > Len(s) THEN <<>>
    ELSE LET b == as_bytes(s[i])
         IN  IF b.panic THEN <<b>> ELSE <<b>> \o vec_parts(s, i + 1)

----------------------------------------------------------------------------
(* openssl::crypto::hash::Hasher with Type::MD5 (RFC 1321).  A 32-bit word  *)
(* is the pair <<high 16 bits, low 16 bits>>.                               *)

md5_K ==
    <<
    <<55146, 42104>>, <<59591, 46934>>, <<9248, 28891>>, <<49597, 52974>>,
    <<62844, 4015>>, <<18311, 50730>>, <<43056, 17939>>, <<64838, 38145>>,
    <<27008, 39128>>, <<35652, 63407>>, <<65535, 23473>>, <<35164, 55230>>,
    <<27536, 4386>>, <<64920, 29075>>, <<42617, 17294>>, <<18868, 2081>>,
    <<63006, 9570>>, <<49216, 45888>>, <<9822, 23121>>, <<59830, 51114>>,
    <<54831, 4189>>, <<580, 5203>>, <<55457, 59009>>, <<59347, 64456>>,
    <<8673, 52710>>, <<49975, 2006>>, <<62677, 3463>>, <<17754, 5357>>,
    <<43491, 59653>>, <<64751, 41976>>, <<26479, 729>>, <<36138, 19594>>,
    <<65530, 14658>>, <<34673, 63105>>, <<28061, 24866>>, <<64997, 14348>>,
    <<42174, 59972>>, <<19422, 53161>>, <<63163, 19296>>, <<48831, 48240>>,
    <<10395, 32454>>, <<60065, 10234>>, <<54511, 12421>>, <<1160, 7429>>,
    <<55764, 53305>>, <<59099, 39397>>, <<8098, 31992>>, <<50348, 22117>>,
    <<62505, 8772>>, <<17194, 65431>>, <<43924, 9127>>, <<64659, 41017>>,
    <<25947, 22979>>, <<36620, 52370>>, <<65519, 62589>>, <<34180, 24017>>,
    <<28584, 32335>>, <<65068, 59104>>, <<41729, 17172>>, <<19976, 4513>>,
    <<63315, 32386>>, <<48442, 62005>>, <<10967, 53947>>, <<60294, 54161>>
    >>

md5_S ==
    <<7, 12, 17, 22, 7, 12, 17, 22, 7, 12, 17, 22, 7, 12, 17, 22,
      5, 9, 14, 20, 5, 9, 14, 20, 5, 9, 14, 20, 5, 9, 14, 20,
      4, 11, 16, 23, 4, 11, 16, 23, 4, 11, 16, 23, 4, 11, 16, 23,
      6, 10, 15, 21, 6, 10, 15, 21, 6, 10, 15, 21, 6, 10, 15, 21>>

md5_init == <<<<26437, 8961>>, <<61389, 43913>>, <<39098, 56574>>, <<4146, 21622>>>>

\* addition modulo 2^32
md5_add(x, y) ==
    LET lo == x[2] + y[2]
        hi == x[1] + y[1] + (lo \div 65536)
    IN  <<hi % 65536, lo % 65536>>

\* rotate left by c bits, 0 < c < 32
md5_rotl(x, c) ==
    LET y == IF c >= 16 THEN <<x[2], x[1]>> ELSE x
        d == c % 16
        p == 2 ^ d
        q == 2 ^ (16 - d)
    IN  IF d = 0 THEN y
        ELSE <<((y[1] * p) % 65536) + (y[2] \div q),
               ((y[2] * p) % 65536) + (y[1] \div q)>>

\* the round function of round r (0..3) on n-bit operands, bit by bit:
\* F = (b & c) | (~b & d), G = (b & d) | (c & ~d), H = b ^ c ^ d, I = c ^ (b | ~d)
RECURSIVE md5_bits(_, _, _, _, _)
md5_bits(r, b, c, d, n) ==
    IF n = 0 THEN 0
    ELSE LET x == b % 2
             y == c % 2
             z == d % 2
             bit == CASE r = 0 -> IF x = 1 THEN y ELSE z
                      [] r = 1 -> IF z = 1 THEN x ELSE y
                      [] r = 2 -> (x + y + z) % 2
                      [] OTHER -> (y + (IF x = 1 \/ z = 0 THEN 1 ELSE 0)) % 2
         IN  bit + 2 * md5_bits(r, b \div 2, c \div 2, d \div 2, n - 1)

\* the round functions on 4-bit operands, tabulated once
md5_nibble ==
    [r \in 0..3 |-> [b \in 0..15 |-> [c \in 0..15 |-> [d \in 0..15 |->
        md5_bits(r, b, c, d, 4)]]]]

\* the round function of round r on 16-bit operands, nibble by nibble
md5_f16(r, b, c, d) ==
    md5_nibble[r][b % 16][c % 16][d % 16]
    + 16 * md5_nibble[r][(b \div 16) % 16][(c \div 16) % 16][(d \div 16) % 16]
    + 256 * md5_nibble[r][(b \div 256) % 16][(c \div 256) % 16][(d \div 256) % 16]
    + 4096 * md5_nibble[r][b \div 4096][c \div 4096][d \div 4096]

md5_f(r, b, c, d) == <<md5_f16(r, b[1], c[1], d[1]), md5_f16(r, b[2], c[2], d[2])>>

\* index of the message word used by step i (0..63)
md5_g(i) ==
    CASE i < 16 -> i
      [] i < 32 -> (5 * i + 1) % 16
      [] i < 48 -> (3 * i + 5) % 16
      [] OTHER  -> (7 * i) % 16

\* steps i..63 on the working state st = <<a, b, c, d>> with message words m
\* (the test next = next only makes TLC compute next before it recurses)
RECURSIVE md5_steps(_, _, _)
md5_steps(i, st, m) ==
    IF i = 64 THEN st
    ELSE LET f == md5_add(md5_add(md5_f(i \div 16, st[2], st[3], st[4]), st[1]),
                          md5_add(md5_K[i + 1], m[md5_g(i) + 1]))
             next == <<st[4], md5_add(st[2], md5_rotl(f, md5_S[i + 1])), st[2], st[3]>>
         IN  IF next = next THEN md5_steps(i + 1, next, m) ELSE st

\* the 16 little-endian words of the 64-byte block starting after byte `off`
md5_words(msg, off) ==
    [j \in 1..16 |->
        <<msg[off + 4 * j - 1] + 256 * msg[off + 4 * j],
          msg[off + 4 * j - 3] + 256 * msg[off + 4 * j - 2]>>]

\* padding: 0x80, zeros up to 56 mod 64, then the bit length as 64-bit
\* little-endian (messages are shorter than 2^28 bytes)
md5_pad(msg) ==
    LET n == Len(msg)
        z == (55 - n) % 64
        bits == 8 * n
    IN  msg \o <<128>> \o [i \in 1..z |-> 0]
            \o <<bits % 256, (bits \div 256) % 256, (bits \div 65536) % 256,
                 bits \div 16777216, 0, 0, 0, 0>>

\* the compression of the blocks of the padded message msg from offset off
\* on, starting from the chaining value h
RECURSIVE md5_blocks(_, _, _)
md5_blocks(msg, off, h) ==
    IF off >= Len(msg) THEN h
    ELSE LET st == md5_steps(0, h, md5_words(msg, off))
             next == <<md5_add(h[1], st[1]), md5_add(h[2], st[2]),
                       md5_add(h[3], st[3]), md5_add(h[4], st[4])>>
         IN  IF next = next THEN md5_blocks(msg, off + 64, next) ELSE h

\* the 16 digest bytes: the four state words, each little-endian
md5_digest(msg) ==
    LET h == md5_blocks(md5_pad(msg), 0, md5_init)
    IN  [k \in 1..16 |->
            LET w == h[((k - 1) \div 4) + 1]
                j == (k - 1) % 4
            IN  CASE j = 0 -> w[2] % 256
                  [] j = 1 -> w[2] \div 256
                  [] j = 2 -> w[1] % 256
                  [] OTHER -> w[1] \div 256]


----------------------------------------------------------------------------
(* rustc_serialize::hex::ToHex: two lowercase hexadecimal digits per byte   *)

hex_char(n) == IF n < 10 THEN 48 + n ELSE 87 + n

to_hex(bytes) ==
    [i \in 1..(2 * Len(bytes)) |->
        IF i % 2 = 1 THEN hex_char(bytes[(i + 1) \div 2] \div 16)
        ELSE hex_char(bytes[i \div 2] % 16)]

----------------------------------------------------------------------------
(* The Hasher object: what was fed to it so far *)

hasher_new == <<>>
hasher_update(h, data) == h \o data
hasher_finish(h) == md5_digest(h)

----------------------------------------------------------------------------
(* AttributeFactory::calc_keepalive_data *)

\* "llwl"
seed == <<108, 108, 119, 108>>

\* as timenow_of, but reading the clock even when a timestamp is supplied
timenow_always_clock(timestamp, now) == now

\* match timestamp { Some(timestamp) => timestamp, None => current_timestamp() }
\* where `now` is what current_timestamp() would return
timenow_of(timestamp, now) == IF timestamp.some THEN timestamp.val ELSE now

\* as salt_of, but with another default: "llw1"
salt_of_other_seed(last_data) == IF last_data.some THEN last_data.val ELSE <<108, 108, 119, 49>>

\* match last_data { Some(data) => data, None => "llwl" }
salt_of(last_data) == IF last_data.some THEN last_data.val ELSE seed

\* as keepalive_hash, but feeding the salt before the timestamp bytes
keepalive_hash_salt_first(timenow, salt) ==
    LET timenow_bytes == integer_to_bytes_u32(u32_to_be(timenow))
        md5_1 == hasher_update(hasher_new, salt)
        md5_2 == hasher_update(md5_1, timenow_bytes)
    IN  to_hex(hasher_finish(md5_2))

\* the block that hashes: new hasher, update with the timestamp bytes, update
\* with the salt, finish, hex
keepalive_hash(timenow, salt) ==
    LET timenow_bytes == integer_to_bytes_u32(u32_to_be(timenow))
        md5_1 == hasher_update(hasher_new, timenow_bytes)
        md5_2 == hasher_update(md5_1, salt)
    IN  to_hex(hasher_finish(md5_2))

calc_keepalive_data(timestamp, last_data, now) ==
    keepalive_hash(timenow_of(timestamp, now), salt_of(last_data))

----------------------------------------------------------------------------
(* Inputs the callers choose from *)

\* "05802278989@HYXY.XY", the user name of test_attribute_gen_bytes
UserName == <<48, 53, 56, 48, 50, 50, 55, 56, 57, 56, 57, 64, 72, 89, 88, 89, 46, 88, 89>>

\* "", "\u{e9}" (two bytes in UTF-8), and the user name
Strings == {<<>>, <<195, 169>>, UserName}

\* strings around the largest payload a u16 length can describe: 65532,
\* 65533 and 65536 bytes
Filled(n, b) == [i \in 1..n |-> b]
BigStrings == {Filled(65532, 97), Filled(65533, 97), Filled(65536, 97)}

\* 192.168.1.2
IpAddresses == {<<192, 168, 1, 2>>}

MacAddresses == {<<0, 17, 34, 51>>}

\* 1024, 1472483020 (the timestamp of test_keepalive_data), u32::MAX
Sizes == {<<0, 1024>>, <<65535, 65535>>}
Timestamps == {<<22468, 20172>>, <<65535, 65535>>}

\* arguments of direct Attribute::new calls: an attribute with the identifier
\* of User-Name (or another one) under another label, type_id and value_type_id
NewArgs ==
    {<<t, p, ti, v, d>> : t \in {"Other"}, p \in {1, 255}, ti \in {0, 7},
                           v \in {0, 2}, d \in {<<195, 169>>}}

----------------------------------------------------------------------------
(* The caller: it builds a Vec<Attribute> with the constructors, serializes *)
(* it, may ask an element for its length, and starts over                   *)

NoLength == [idx |-> 0, res |-> Ok(0)]

\* the caller may push one more attribute
can_push == pc = "build" /\ Len(attrs) < MaxAttrs

\* attrs.push(a), a being what the constructor fn returned for arg
pushed(a, fn, arg) ==
    /\ attrs' = Append(attrs, a)
    /\ made' = Append(made, [fn |-> fn, arg |-> arg])
    /\ UNCHANGED <<pc, parts, out, len_out>>
    /\ UNCHANGED <<build_vars, clock, token_vars, conc_vars>>

call_new ==
    \E n \in NewArgs :
        /\ can_push
        /\ pushed(new(n[1], n[2], n[3], n[4], n[5]), "new", n)

call_username(S) ==
    \E s \in S :
        /\ can_push
        /\ pushed(username(s), "username", s)

call_client_ip_address ==
    \E ip \in IpAddresses :
        /\ can_push
        /\ pushed(client_ip_address(ip), "client_ip_address", ip)

call_client_type ==
    \E s \in Strings :
        /\ can_push
        /\ pushed(client_type(s), "client_type", s)

call_client_version ==
    \E s \in Strings :
        /\ can_push
        /\ pushed(client_version(s), "client_version", s)

call_os_version ==
    \E s \in Strings :
        /\ can_push
        /\ pushed(os_version(s), "os_version", s)

call_os_language ==
    \E s \in Strings :
        /\ can_push
        /\ pushed(os_language(s), "os_language", s)

call_cpu_info ==
    \E s \in Strings :
        /\ can_push
        /\ pushed(cpu_info(s), "cpu_info", s)

call_mac_address ==
    \E m \in MacAddresses :
        /\ can_push
        /\ pushed(mac_address(m), "mac_address", m)

call_memory_size ==
    \E v \in Sizes :
        /\ can_push
        /\ pushed(memory_size(v), "memory_size", v)

call_default_explorer ==
    \E s \in Strings :
        /\ can_push
        /\ pushed(default_explorer(s), "default_explorer", s)

call_keepalive_data ==
    \E s \in Strings :
        /\ can_push
        /\ pushed(keepalive_data(s), "keepalive_data", s)

call_keepalive_time ==
    \E v \in Timestamps :
        /\ can_push
        /\ pushed(keepalive_time(v), "keepalive_time", v)

\* attrs.as_bytes() of AttributeVec
call_vec_as_bytes ==
    /\ pc = "build"
    /\ pc' = "done"
    /\ out' = vec_as_bytes(attrs)
    /\ parts' = vec_parts(attrs, 1)
    /\ UNCHANGED <<attrs, made, len_out>>
    /\ UNCHANGED <<build_vars, clock, token_vars, conc_vars>>

\* attrs[i].length()
call_length ==
    /\ pc = "done"
    /\ \E i \in 1..Len(attrs) : len_out' = [idx |-> i, res |-> length(attrs[i])]
    /\ UNCHANGED <<pc, attrs, made, parts, out>>
    /\ UNCHANGED <<build_vars, clock, token_vars, conc_vars>>

\* the caller drops the vector and builds the next one
restart ==
    /\ pc = "done"
    /\ pc' = "build"
    /\ attrs' = <<>>
    /\ made' = <<>>
    /\ parts' = <<>>
    /\ out' = Ok(<<>>)
    /\ len_out' = NoLength
    /\ UNCHANGED <<build_vars, clock, token_vars, conc_vars>>

----------------------------------------------------------------------------
(* The heartbeat loop: it derives keepalive tokens, with or without a       *)
(* timestamp, and with no previous token, the seed as previous token, or    *)
(* the token it derived last; meanwhile the clock advances                  *)

\* 1472483019: one second before the timestamp of test_keepalive_data
StartClock == <<22468, 20171>>

\* 1472483020, the timestamp of test_keepalive_data
TestTime == <<22468, 20172>>

\* x + 1 in u32
u32_succ(x) == IF x[2] = 65535 THEN <<(x[1] + 1) % 65536, 0>> ELSE <<x[1], x[2] + 1>>

tick ==
    /\ clock[2] < StartClock[2] + MaxTicks
    /\ clock' = u32_succ(clock)
    /\ UNCHANGED <<build_vars, attr_vars, token_vars, conc_vars>>

TimestampArgs == {None, Some(TestTime)}

LastDataArgs ==
    {None, Some(seed)} \cup (IF last_call.some THEN {Some(last_call.val.ret)} ELSE {})

same_args(c, d) == c.timestamp = d.timestamp /\ c.last_data = d.last_data

call_calc_keepalive_data ==
    /\ ncalls < MaxCalls
    /\ \E timestamp \in TimestampArgs, last_data \in LastDataArgs :
          \E ret \in {calc_keepalive_data(timestamp, last_data, clock)} :
              LET c == [timestamp |-> timestamp, last_data |-> last_data,
                        now |-> IF timestamp.some THEN None ELSE Some(clock),
                        ret |-> ret]
              IN  /\ calls' = calls \cup {c}
                  /\ last_call' = Some(c)
                  /\ repeated' = /\ last_call.some
                                 /\ ~same_args(last_call.val, c)
                                 /\ \E e \in calls : same_args(e, c)
    /\ ncalls' = ncalls + 1
    /\ UNCHANGED <<build_vars, attr_vars, clock, conc_vars>>

Sites == 1..NSites

----------------------------------------------------------------------------
(* Concurrent call sites: each one, over and over, either builds an         *)
(* attribute and serializes it or derives a keepalive token, one statement  *)
(* at a time, interleaved with the other sites and with the clock           *)

\* a stack frame: the locals of as_bytes (self, attribute_bytes,
\* length_bytes) and of calc_keepalive_data (timenow, salt), before they are
\* initialised
NoFrame ==
    [attr |-> new("", 0, 0, 0, <<>>), buf |-> <<>>, bytes |-> <<>>,
     timenow |-> <<0, 0>>, salt |-> <<>>]

\* what a call site called: the operation and its arguments; now and reads
\* record the clock value the call read and how often it read the clock
NoArgs ==
    [op |-> "none", fn |-> "", arg |-> <<>>, timestamp |-> None, last_data |-> None,
     now |-> None, reads |-> 0]

\* as frame_of, but with one frame (static storage) for all calls
frame_shared(p) == 1

\* the stack frame of the call in progress at site p: its own
frame_of(p) == p

frame(p) == frames[frame_of(p)]

\* site p stores v into local `name`, moves to position `to`, and the rest of
\* the call sites' state stays
step(p, from, to, name, v) ==
    /\ cpc[p] = from
    /\ cpc' = [cpc EXCEPT ![p] = to]
    /\ frames' = [frames EXCEPT ![frame_of(p)][name] = v]

\* site p returns r: its frame is popped
return(p, from, r) ==
    /\ cpc[p] = from
    /\ cpc' = [cpc EXCEPT ![p] = "returned"]
    /\ cret' = [cret EXCEPT ![p] = r]
    /\ frames' = [frames EXCEPT ![frame_of(p)] = NoFrame]

\* the attribute a site builds: Attribute::username("05802278989@HYXY.XY")
SiteAttrArgs == {<<"username", UserName>>}

\* the calls of calc_keepalive_data a site makes: with the timestamp of
\* test_keepalive_data and a salt supplied, and with nothing supplied
SiteCalcArgs == {<<Some(TestTime), Some(seed)>>, <<None, None>>}

\* let attr = Attribute::username(..); attr.as_bytes() is entered
begin_as_bytes ==
    \E p \in Sites, a \in SiteAttrArgs :
        /\ step(p, "idle", "alloc", "attr", username(a[2]))
        /\ cargs' = [cargs EXCEPT ![p] = [NoArgs EXCEPT !.op = "as_bytes", !.fn = a[1], !.arg = a[2]]]
        /\ UNCHANGED <<cret, build_vars, attr_vars, clock, token_vars>>

\* attribute_bytes = Box::new(Vec::new());
\* length_bytes = integer_to_bytes(&self.length().to_be()); length() may panic
as_bytes_alloc ==
    \E p \in Sites :
        LET l == length(frame(p).attr)
        IN  /\ cpc[p] = "alloc"
            /\ IF l.panic
               THEN return(p, "alloc", Panic)
               ELSE /\ cpc' = [cpc EXCEPT ![p] = "push"]
                    /\ frames' = [frames EXCEPT
                           ![frame_of(p)].buf = <<>>,
                           ![frame_of(p)].bytes = integer_to_bytes_u16(u16_to_be(l.val))]
                    /\ UNCHANGED cret
            /\ UNCHANGED <<cargs, build_vars, attr_vars, clock, token_vars>>

\* attribute_bytes.push(self.parent_id)
as_bytes_push ==
    \E p \in Sites :
        /\ step(p, "push", "extend_length", "buf", Append(frame(p).buf, frame(p).attr.parent_id))
        /\ UNCHANGED <<cargs, cret, build_vars, attr_vars, clock, token_vars>>

\* attribute_bytes.extend(length_bytes)
as_bytes_extend_length ==
    \E p \in Sites :
        /\ step(p, "extend_length", "extend_data", "buf", extend(frame(p).buf, frame(p).bytes))
        /\ UNCHANGED <<cargs, cret, build_vars, attr_vars, clock, token_vars>>

\* attribute_bytes.extend(&self.data); attribute_bytes is returned
as_bytes_extend_data ==
    \E p \in Sites :
        /\ return(p, "extend_data", Ok(extend(frame(p).buf, frame(p).attr.data)))
        /\ UNCHANGED <<cargs, build_vars, attr_vars, clock, token_vars>>

\* calc_keepalive_data(timestamp, last_data) is entered
begin_calc_keepalive_data ==
    \E p \in Sites, a \in SiteCalcArgs :
        /\ cpc[p] = "idle"
        /\ cpc' = [cpc EXCEPT ![p] = "timenow"]
        /\ cargs' = [cargs EXCEPT ![p] = [NoArgs EXCEPT !.op = "calc_keepalive_data",
                                                        !.timestamp = a[1], !.last_data = a[2]]]
        /\ UNCHANGED <<frames, cret, build_vars, attr_vars, clock, token_vars>>

\* let timenow = match timestamp { .. }: current_timestamp() is called only
\* in the None arm; let salt = match last_data { .. }
calc_timenow ==
    \E p \in Sites :
        /\ cpc[p] = "timenow"
        /\ cpc' = [cpc EXCEPT ![p] = "hash"]
        /\ frames' = [frames EXCEPT
               ![frame_of(p)].timenow = timenow_of(cargs[p].timestamp, clock),
               ![frame_of(p)].salt = salt_of(cargs[p].last_data)]
        /\ cargs' = IF cargs[p].timestamp.some THEN cargs
                    ELSE [cargs EXCEPT ![p].now = Some(clock), ![p].reads = @ + 1]
        /\ UNCHANGED <<cret, build_vars, attr_vars, clock, token_vars>>

\* md5 = Hasher::new(Type::MD5); md5.update(timenow_bytes);
\* md5.update(salt.as_bytes()); md5.finish()[..].to_hex() is returned
calc_hash ==
    \E p \in Sites :
        /\ cpc[p] = "hash"
        /\ \E r \in {keepalive_hash(frame(p).timenow, frame(p).salt)} : return(p, "hash", Ok(r))
        /\ UNCHANGED <<cargs, build_vars, attr_vars, clock, token_vars>>

\* the site takes the result and is free for its next call
site_done ==
    \E p \in Sites :
        /\ cpc[p] = "returned"
        /\ cpc' = [cpc EXCEPT ![p] = "idle"]
        /\ cargs' = [cargs EXCEPT ![p] = NoArgs]
        /\ cret' = [cret EXCEPT ![p] = Ok(<<>>)]
        /\ UNCHANGED <<frames, build_vars, attr_vars, clock, token_vars>>

----------------------------------------------------------------------------
(* Initial states *)

InitBuild ==
    /\ little_endian \in BOOLEAN
    /\ overflow_checks \in BOOLEAN

InitAttr ==
    /\ pc = "build"
    /\ attrs = <<>>
    /\ made = <<>>
    /\ parts = <<>>
    /\ out = Ok(<<>>)
    /\ len_out = NoLength

InitToken ==
    /\ clock = StartClock
    /\ ncalls = 0
    /\ calls = {}
    /\ last_call = None
    /\ repeated = FALSE

InitConc ==
    /\ frames = [f \in Sites |-> NoFrame]
    /\ cpc = [p \in Sites |-> "idle"]
    /\ cargs = [p \in Sites |-> NoArgs]
    /\ cret = [p \in Sites |-> Ok(<<>>)]

Init == InitBuild /\ InitAttr /\ InitToken /\ InitConc

----------------------------------------------------------------------------
(* Spec: the caller with every constructor.  SpecBig: the caller with       *)
(* payloads around the limit of the 16-bit length field.                    *)

Next ==
    \/ call_new
    \/ call_username(Strings)
    \/ call_client_ip_address
    \/ call_client_type
    \/ call_client_version
    \/ call_os_version
    \/ call_os_language
    \/ call_cpu_info
    \/ call_mac_address
    \/ call_memory_size
    \/ call_default_explorer
    \/ call_keepalive_data
    \/ call_keepalive_time
    \/ call_vec_as_bytes
    \/ call_length
    \/ restart

Spec == Init /\ [][Next]_vars

NextBig ==
    \/ call_username(Strings \cup BigStrings)
    \/ call_vec_as_bytes
    \/ call_length
    \/ restart

SpecBig == Init /\ [][NextBig]_vars

----------------------------------------------------------------------------
(* Properties of Attribute::as_bytes and Attribute::length *)

\* the largest payload whose length + 3 fits in a u16
MaxPayload == 65532

\* C1: every attr.as_bytes() returns the identifier, then payload length + 3
\* as two bytes, most significant first, then the payload, and nothing else,
\* so that the length field equals the number of bytes returned.
C1_as_bytes_is_tlv ==
    \A i \in 1..Len(parts) :
        LET a == attrs[i]
            r == parts[i]
        IN  /\ ~r.panic
            /\ Len(r.val) = Len(a.data) + 3
            /\ r.val[1] = a.parent_id
            /\ 256 * r.val[2] + r.val[3] = Len(a.data) + 3
            /\ SubSeq(r.val, 4, Len(r.val)) = a.data

\* C2: length() and as_bytes() panic for every payload longer than 65532
\* bytes; they never return a truncated or wrapped length.
C2_oversize_is_fatal ==
    /\ len_out.idx > 0 /\ Len(attrs[len_out.idx].data) > MaxPayload => len_out.res.panic
    /\ \A i \in 1..Len(parts) : Len(attrs[i].data) > MaxPayload => parts[i].panic

----------------------------------------------------------------------------
(* Properties of AttributeVec::as_bytes *)

RECURSIVE concat_all(_)
concat_all(ss) == IF ss = <<>> THEN <<>> ELSE Head(ss) \o concat_all(Tail(ss))

\* C3: the serializer of a sequence returns the concatenation of as_bytes of
\* its elements, in their order (and panics if one of them does).
C3_vec_is_concat ==
    pc = "done" =>
        IF \E i \in 1..Len(attrs) : as_bytes(attrs[i]).panic
        THEN out.panic
        ELSE out = Ok(concat_all([i \in 1..Len(attrs) |-> as_bytes(attrs[i]).val]))

\* two different attributes with the same identifier were serialized
C3_witness ==
    /\ pc = "done"
    /\ Len(attrs) = 2
    /\ attrs[1].parent_id = attrs[2].parent_id
    /\ attrs[1].data # attrs[2].data
    /\ ~out.panic
    /\ Len(out.val) > 6

----------------------------------------------------------------------------
(* Properties of the constructors *)

\* the table of the specification: (identifier, value kind) per field
FieldTable ==
    [username |-> <<1, 2>>, client_ip_address |-> <<2, 1>>, client_version |-> <<3, 2>>,
     client_type |-> <<4, 2>>, os_version |-> <<5, 2>>, os_language |-> <<6, 2>>,
     cpu_info |-> <<8, 2>>, mac_address |-> <<9, 2>>, memory_size |-> <<10, 0>>,
     default_explorer |-> <<11, 2>>, keepalive_time |-> <<18, 0>>,
     keepalive_data |-> <<20, 2>>]

\* the constructors whose payload is the bytes of the argument
TakesBytes ==
    {"username", "client_ip_address", "client_version", "client_type", "os_version",
     "os_language", "cpu_info", "mac_address", "default_explorer", "keepalive_data"}

\* C4: an attribute made by a constructor has the identifier and value kind
\* of the table and the caller's bytes as payload; attributes of different
\* constructors have different identifiers.
C4_field_table ==
    /\ \A i \in 1..Len(attrs) :
          made[i].fn # "new" =>
              /\ attrs[i].parent_id = FieldTable[made[i].fn][1]
              /\ attrs[i].value_type_id = FieldTable[made[i].fn][2]
              /\ made[i].fn \in TakesBytes => attrs[i].data = made[i].arg
    /\ \A i, j \in 1..Len(attrs) :
          made[i].fn # "new" /\ made[j].fn # "new" /\ made[i].fn # made[j].fn
              => attrs[i].parent_id # attrs[j].parent_id

\* the caller made a Client-Type and a Client-Version attribute
C4_witness ==
    /\ Len(attrs) = 2
    /\ made[1].fn = "client_type"
    /\ made[2].fn = "client_version"
    /\ attrs[1].data = UserName

\* the bytes of a u32, most significant first
BE4(v) == <<v[1] \div 256, v[1] % 256, v[2] \div 256, v[2] % 256>>

\* C5: memory_size(v) and keepalive_time(v) have the 4 bytes of v, most
\* significant first, as payload, and serialize to 7 bytes with length field
\* 7; memory_size(1024) has payload [0, 0, 4, 0].
C5_u32_payload ==
    \A i \in 1..Len(attrs) :
        made[i].fn \in {"memory_size", "keepalive_time"} =>
            /\ attrs[i].data = BE4(made[i].arg)
            /\ Len(attrs[i].data) = 4
            /\ made[i] = [fn |-> "memory_size", arg |-> <<0, 1024>>] => attrs[i].data = <<0, 0, 4, 0>>
            /\ i <= Len(parts) =>
                  parts[i] = Ok(<<attrs[i].parent_id, 0, 7>> \o BE4(made[i].arg))

\* memory_size(1024) was serialized on a little-endian target
C5_witness ==
    /\ pc = "done"
    /\ little_endian
    /\ Len(attrs) = 2
    /\ made[1] = [fn |-> "memory_size", arg |-> <<0, 1024>>]
    /\ made[2].fn = "keepalive_time"
    /\ parts[1] = Ok(<<10, 0, 7, 0, 0, 4, 0>>)

\* C9: attributes with the same identifier and payload serialize to the same
\* bytes whatever their label, type_id and value_type_id; every constructor
\* sets type_id to 0.
C9_metadata_not_on_wire ==
    /\ \A i, j \in 1..Len(parts) :
          attrs[i].parent_id = attrs[j].parent_id /\ attrs[i].data = attrs[j].data
              => parts[i] = parts[j]
    /\ \A i \in 1..Len(attrs) : made[i].fn # "new" => attrs[i].type_id = 0

\* two attributes that differ in label, type_id and value_type_id only were
\* serialized
C9_witness ==
    /\ pc = "done"
    /\ Len(parts) = 2
    /\ attrs[1].parent_id = attrs[2].parent_id
    /\ attrs[1].data = attrs[2].data
    /\ attrs[1].data # <<>>
    /\ attrs[1].typename # attrs[2].typename
    /\ attrs[1].type_id # attrs[2].type_id
    /\ attrs[1].value_type_id # attrs[2].value_type_id

----------------------------------------------------------------------------
(* SpecToken: the heartbeat loop *)

NextToken ==
    \/ tick
    \/ call_calc_keepalive_data

\* calc_keepalive_data does no arithmetic that can overflow: one build
\* profile stands for both
InitTokenSpec == Init /\ overflow_checks

SpecToken == InitTokenSpec /\ [][NextToken]_vars

----------------------------------------------------------------------------
(* Properties of calc_keepalive_data *)

\* "0123456789abcdef"
HexDigits == <<48, 49, 50, 51, 52, 53, 54, 55, 56, 57, 97, 98, 99, 100, 101, 102>>

RECURSIVE lower_hex(_)
lower_hex(bytes) ==
    IF bytes = <<>> THEN <<>>
    ELSE <<HexDigits[(Head(bytes) \div 16) + 1], HexDigits[(Head(bytes) % 16) + 1]>>
         \o lower_hex(Tail(bytes))

\* "llwl"
Llwl == <<108, 108, 119, 108>>

\* "ffb0b2af94693fd1ba4c93e6b9aebd3f" and "d0dce2b013c8adfac646a2917fdab802",
\* the tokens test_keepalive_data expects
TestToken1 ==
    <<102, 102, 98, 48, 98, 50, 97, 102, 57, 52, 54, 57, 51, 102, 100, 49,
      98, 97, 52, 99, 57, 51, 101, 54, 98, 57, 97, 101, 98, 100, 51, 102>>
TestToken2 ==
    <<100, 48, 100, 99, 101, 50, 98, 48, 49, 51, 99, 56, 97, 100, 102, 97,
      99, 54, 52, 54, 97, 50, 57, 49, 55, 102, 100, 97, 98, 56, 48, 50>>

\* C6: a call returns the lowercase hex of MD5(BE4(T) ++ S), T being the
\* timestamp supplied or else the clock, S the previous token supplied or
\* else "llwl"; for 1472483020 the first two tokens of the chain are those of
\* test_keepalive_data.
C6_token_is_md5 ==
    last_call.some =>
        LET c == last_call.val
            T == IF c.timestamp.some THEN c.timestamp.val ELSE c.now.val
            S == IF c.last_data.some THEN c.last_data.val ELSE Llwl
        IN  /\ c.ret = lower_hex(md5_digest(BE4(T) \o S))
            /\ Len(c.ret) = 32
            /\ T = TestTime /\ ~c.last_data.some => c.ret = TestToken1
            /\ T = TestTime /\ c.last_data = Some(TestToken1) => c.ret = TestToken2

\* the second token of the chain of test_keepalive_data was derived on a
\* little-endian target, after a first call that read the clock
C6_witness ==
    /\ little_endian
    /\ last_call.some
    /\ last_call.val.timestamp = Some(TestTime)
    /\ last_call.val.last_data = Some(TestToken1)
    /\ last_call.val.ret = TestToken2
    /\ \E e \in calls : ~e.timestamp.some /\ e.ret = TestToken1

\* C7: two calls with the same supplied timestamp and the same previous token
\* return the same token, whatever happened between them.
C7_deterministic ==
    \A c, d \in calls :
        c.timestamp.some /\ same_args(c, d) => c.ret = d.ret

\* a call with a supplied timestamp repeated the arguments of an earlier
\* call, after a different call that read the clock, and after the clock
\* advanced
C7_witness ==
    /\ repeated
    /\ last_call.val.timestamp.some
    /\ clock # StartClock
    /\ \E e \in calls : e.now = Some(StartClock)

\* C10: with the same supplied timestamp, a call without previous token and
\* a call with "llwl" as previous token return the same token.
C10_none_is_seed ==
    \A c, d \in calls :
        /\ c.timestamp.some
        /\ c.timestamp = d.timestamp
        /\ c.last_data = None
        /\ d.last_data = Some(Llwl)
        => c.ret = d.ret

\* both calls were made
C10_witness ==
    \E c, d \in calls :
        /\ c.timestamp.some
        /\ c.timestamp = d.timestamp
        /\ c.last_data = None
        /\ d.last_data = Some(Llwl)
        /\ c.ret = TestToken1

----------------------------------------------------------------------------
(* SpecConc: the concurrent call sites *)

NextConc ==
    \/ tick
    \/ begin_as_bytes
    \/ as_bytes_alloc
    \/ as_bytes_push
    \/ as_bytes_extend_length
    \/ as_bytes_extend_data
    \/ begin_calc_keepalive_data
    \/ calc_timenow
    \/ calc_hash
    \/ site_done

\* the attributes of the sites are far below the size at which length()
\* overflows: one build profile stands for both
InitConcSpec == Init /\ overflow_checks

SpecConc == InitConcSpec /\ [][NextConc]_vars

\* what the call of site p returns when it runs alone, given the clock value
\* it read (if it read the clock)
alone(p) ==
    IF cargs[p].op = "as_bytes"
    THEN as_bytes(username(cargs[p].arg))
    ELSE Ok(calc_keepalive_data(cargs[p].timestamp, cargs[p].last_data, cargs[p].now.val))

\* C8: whatever the interleaving with the other call sites, a call returns
\* what it returns when run alone, and it reads the clock once if no
\* timestamp is supplied and never otherwise.
C8_calls_do_not_interfere ==
    \A p \in Sites :
        /\ cpc[p] = "returned" => cret[p] = alone(p)
        /\ cargs[p].reads <= 1
        /\ cargs[p].timestamp.some => cargs[p].reads = 0
        /\ cpc[p] = "returned" /\ cargs[p].op = "calc_keepalive_data" /\ ~cargs[p].timestamp.some
              => cargs[p].reads = 1

\* a serialization and a token derivation that read the clock returned while
\* the other was in progress, after the clock had advanced
C8_witness ==
    \E p, q \in Sites :
        /\ cpc[p] = "returned" /\ cargs[p].op = "as_bytes" /\ cret[p].val # <<>>
        /\ cpc[q] = "hash" /\ cargs[q].now = Some(StartClock)
        /\ clock # StartClock

====
